---- MODULE Spec2Model ----
(***************************************************************************)
(* Model of main.py: the admin console backend.  The sqlite store holds    *)
(* admin_sessions and settings, the postgres store holds the users table,  *)
(* the sync route handlers run in worker threads (one step each), and     *)
(* daily_reset runs on the event loop, one store statement per step.       *)
(* Strings that the code converts or slices (setting values, the           *)
(* Authorization header, tokens) are sequences of one-character strings.   *)
(***************************************************************************)
EXTENDS Integers, Sequences, FiniteSets, TLC

VARIABLES sessions, issued, settings, users, jobPc, triggered_by, vip_quota,
          default_quota, users_to_reset, idx, snapshot, streak, lastSet, nIncr, resp

vars == <<sessions, issued, settings, users, jobPc, triggered_by, vip_quota,
          default_quota, users_to_reset, idx, snapshot, streak, lastSet, nIncr, resp>>

jobVars == <<jobPc, triggered_by, vip_quota, default_quota, users_to_reset, idx>>

\* ---------------------------------------------------------------- bounds
NumUsers == 2
MaxSessions == 2
MaxIncr == 2

\* ------------------------------------------------------- string helpers
Digits == <<"0", "1", "2", "3", "4", "5", "6", "7", "8", "9">>

RECURSIVE NatToStr(_)
NatToStr(n) ==
  IF n < 10 THEN <<Digits[n + 1]>>
  ELSE NatToStr(n \div 10) \o <<Digits[(n % 10) + 1]>>

\* str(int)
IntToStr(n) == IF n < 0 THEN <<"-">> \o NatToStr(0 - n) ELSE NatToStr(n)

DigitVal(c) == (CHOOSE i \in 1..10 : Digits[i] = c) - 1

RECURSIVE DigitsToNat(_)
DigitsToNat(s) ==
  IF Len(s) = 0 THEN 0
  ELSE 10 * DigitsToNat(SubSeq(s, 1, Len(s) - 1)) + DigitVal(s[Len(s)])

\* int(str) on the decimal strings the settings table holds
StrToInt(s) ==
  IF Len(s) > 0 /\ s[1] = "-" THEN 0 - DigitsToNat(Tail(s)) ELSE DigitsToNat(s)

StartsWith(s, p) == Len(s) >= Len(p) /\ SubSeq(s, 1, Len(p)) = p

\* --------------------------------------------------- program constants
ADMIN_PASSWORD == "admin123"
KeyVip == "daily_reset_quota_vip"
KeyDefault == "daily_reset_quota_default"
DefaultVip == <<"1", "0", "0", "0", "0", "0", "0">>
DefaultDefault == <<"5", "0", "0", "0", "0">>
Bearer == <<"B", "e", "a", "r", "e", "r", " ">>
AdminRequired == "Admin access required"

\* ------------------------------------------------------- input domains
UserIds == 1..NumUsers
ReqIds == 1..(NumUsers + 1)
Groups == {"vip", "default", "enterprise"}
Tokens == {<<"a", "1">>, <<"b", "2">>}
Passwords == {ADMIN_PASSWORD, "letmein"}
Headers ==
  {<<>>}
    \cup {Bearer \o t : t \in Tokens \cup {<<>>}}
    \cup {<<"B", "a", "s", "i", "c", " ">> \o t : t \in Tokens}
    \cup {<<"b", "e", "a", "r", "e", "r", " ">> \o t : t \in Tokens}
    \cup Tokens

NoRow == <<>>
NoSnap == <<>>
NoValue == "NoValue"
NoResp == [op |-> "none", req |-> [src |-> "none"], status |-> 0, body |-> <<>>]

\* ------------------------------------------------------ settings store
GetSetting(st, key, default) == IF st[key] # NoRow THEN st[key] ELSE default

SetSetting(st, key, value) == [st EXCEPT ![key] = value]

\* ------------------------------------------------------ tenant gateway
Live(us, id) == id \in DOMAIN us /\ ~us[id].deleted

\* variant: used_quota is left as it was
ResetUserQuota_KeepUsed(us, id, new_quota) ==
  [u \in DOMAIN us |->
     IF u = id /\ ~us[u].deleted THEN [us[u] EXCEPT !.quota = new_quota] ELSE us[u]]

\* variant: the new quota is added to the old one
ResetUserQuota_Accumulate(us, id, new_quota) ==
  [u \in DOMAIN us |->
     IF u = id /\ ~us[u].deleted
     THEN [us[u] EXCEPT !.quota = us[u].quota + new_quota, !.used_quota = 0]
     ELSE us[u]]

\* variant: the deleted_at filter is missing
ResetUserQuota_NoDeletedFilter(us, id, new_quota) ==
  [u \in DOMAIN us |->
     IF u = id THEN [us[u] EXCEPT !.quota = new_quota, !.used_quota = 0] ELSE us[u]]

ResetUserQuota(us, id, new_quota) ==
  [u \in DOMAIN us |->
     IF u = id /\ ~us[u].deleted
     THEN [us[u] EXCEPT !.quota = new_quota, !.used_quota = 0]
     ELSE us[u]]

GetUserById(us, id) ==
  IF id \in DOMAIN us /\ ~us[id].deleted
  THEN [status |-> 200,
        body |-> [id |-> id, group |-> us[id].group, quota |-> us[id].quota,
                  used_quota |-> us[id].used_quota]]
  ELSE [status |-> 404, body |-> "User not found or has been deleted"]

UpdateUserGroup(us, id, group) ==
  [u \in DOMAIN us |->
     IF u = id /\ ~us[u].deleted THEN [us[u] EXCEPT !.group = group] ELSE us[u]]

\* variant: the quota is floored at zero
IncrementUserQuota_Floor(us, id, delta) ==
  [u \in DOMAIN us |->
     IF u = id /\ ~us[u].deleted
     THEN [us[u] EXCEPT !.quota = IF us[u].quota + delta < 0 THEN 0 ELSE us[u].quota + delta]
     ELSE us[u]]

IncrementUserQuota(us, id, delta) ==
  [u \in DOMAIN us |->
     IF u = id /\ ~us[u].deleted
     THEN [us[u] EXCEPT !.quota = us[u].quota + delta]
     ELSE us[u]]

\* --------------------------------------------------------------- auth
\* variant: any session row makes every token pass
TokenInStore_AnyRow(ss, token) == Len(ss) > 0

TokenInStore(ss, token) == \E i \in 1..Len(ss) : ss[i] = token

\* variant: the scheme prefix is not checked
RequireAdminAuth_NoPrefix(ss, h) ==
  \/ TokenInStore(ss, h)
  \/ Len(h) >= 7 /\ TokenInStore(ss, SubSeq(h, 8, Len(h)))

RequireAdminAuth(ss, h) ==
  /\ StartsWith(h, Bearer)
  /\ TokenInStore(ss, SubSeq(h, 8, Len(h)))

PasswordOk(password) == password = ADMIN_PASSWORD

Forbidden(op, h) ==
  [op |-> op, req |-> [auth |-> h], status |-> 403, body |-> AdminRequired]

\* a write by a route handler or by the tenant store, seen by the reset job
Track(us2, st2) ==
  /\ snapshot' = IF us2 # users \/ st2 # settings THEN NoSnap ELSE snapshot
  /\ streak' = IF us2 # users \/ st2 # settings THEN 0 ELSE streak

Reject(op, h) ==
  /\ resp' = Forbidden(op, h)
  /\ UNCHANGED <<sessions, issued, settings, users, jobVars, snapshot, streak, lastSet, nIncr>>

\* ------------------------------------------------------------- routes
admin_login(password, token) ==
  IF ~PasswordOk(password)
  THEN /\ resp' = [op |-> "login", req |-> [password |-> password], status |-> 401,
                   body |-> "Invalid admin password"]
       /\ UNCHANGED <<sessions, issued, settings, users, jobVars, snapshot, streak, lastSet, nIncr>>
  ELSE /\ Len(sessions) < MaxSessions
       /\ sessions' = Append(sessions, token)
       /\ issued' = issued \cup {token}
       /\ resp' = [op |-> "login", req |-> [password |-> password], status |-> 200,
                   body |-> [token |-> token]]
       /\ UNCHANGED <<settings, users, jobVars, snapshot, streak, lastSet, nIncr>>

get_daily_reset_settings(h) ==
  IF ~RequireAdminAuth(sessions, h) THEN Reject("get_settings", h)
  ELSE /\ resp' = [op |-> "get_settings", req |-> [auth |-> h], status |-> 200,
                   body |-> [vip_quota |-> StrToInt(GetSetting(settings, KeyVip, DefaultVip)),
                             default_quota |->
                               StrToInt(GetSetting(settings, KeyDefault, DefaultDefault))]]
       /\ UNCHANGED <<sessions, issued, settings, users, jobVars, snapshot, streak, lastSet, nIncr>>

\* variant: only the VIP value is validated
QuotaNegative_VipOnly(vip, def) == vip < 0

QuotaNegative(vip, def) == vip < 0 \/ def < 0

set_daily_reset_settings(h, vip, def) ==
  IF ~RequireAdminAuth(sessions, h) THEN Reject("set_settings", h)
  ELSE IF QuotaNegative(vip, def)
  THEN /\ resp' = [op |-> "set_settings",
                   req |-> [auth |-> h, vip_quota |-> vip, default_quota |-> def],
                   status |-> 400, body |-> "Quota cannot be negative"]
       /\ UNCHANGED <<sessions, issued, settings, users, jobVars, snapshot, streak, lastSet, nIncr>>
  ELSE /\ settings' = SetSetting(SetSetting(settings, KeyVip, IntToStr(vip)),
                                 KeyDefault, IntToStr(def))
       /\ resp' = [op |-> "set_settings",
                   req |-> [auth |-> h, vip_quota |-> vip, default_quota |-> def],
                   status |-> 200, body |-> "Settings saved successfully."]
       /\ lastSet' = [vip_quota |-> vip, default_quota |-> def]
       /\ Track(users, settings')
       /\ UNCHANGED <<sessions, issued, users, jobVars, nIncr>>

get_user_info(h, id) ==
  IF ~RequireAdminAuth(sessions, h) THEN Reject("get_user", h)
  ELSE /\ resp' = [op |-> "get_user", req |-> [auth |-> h, user_id |-> id],
                   status |-> GetUserById(users, id).status,
                   body |-> GetUserById(users, id).body]
       /\ UNCHANGED <<sessions, issued, settings, users, jobVars, snapshot, streak, lastSet, nIncr>>

update_user_group_api(h, id, group) ==
  IF ~RequireAdminAuth(sessions, h) THEN Reject("update_group", h)
  ELSE /\ users' = UpdateUserGroup(users, id, group)
       /\ resp' = [op |-> "update_group",
                   req |-> [auth |-> h, user_id |-> id, group |-> group],
                   status |-> 200, body |-> [ok |-> TRUE]]
       /\ Track(users', settings)
       /\ UNCHANGED <<sessions, issued, settings, jobVars, lastSet, nIncr>>

increment_quota_api(h, id, delta) ==
  IF ~RequireAdminAuth(sessions, h) THEN Reject("increment_quota", h)
  ELSE /\ nIncr < MaxIncr
       /\ nIncr' = nIncr + 1
       /\ users' = IncrementUserQuota(users, id, delta)
       /\ resp' = [op |-> "increment_quota",
                   req |-> [auth |-> h, user_id |-> id, delta |-> delta],
                   status |-> 200, body |-> [ok |-> TRUE]]
       /\ Track(users', settings)
       /\ UNCHANGED <<sessions, issued, settings, jobVars, lastSet>>

reset_quota_api(h, id, quota) ==
  IF ~RequireAdminAuth(sessions, h) THEN Reject("reset_quota", h)
  ELSE /\ users' = ResetUserQuota(users, id, quota)
       /\ resp' = [op |-> "reset_quota",
                   req |-> [auth |-> h, user_id |-> id, quota |-> quota],
                   status |-> 200, body |-> [ok |-> TRUE]]
       /\ Track(users', settings)
       /\ UNCHANGED <<sessions, issued, settings, jobVars, lastSet, nIncr>>

\* ---------------------------------------------------------- reset job
StartJob(by) ==
  /\ jobPc = "idle"
  /\ jobPc' = "read_vip"
  /\ triggered_by' = by
  /\ snapshot' = users
  /\ UNCHANGED <<vip_quota, default_quota, users_to_reset, idx, streak>>

trigger_daily_reset_now(h) ==
  IF ~RequireAdminAuth(sessions, h) THEN Reject("trigger_reset", h)
  ELSE /\ StartJob("manual")
       /\ resp' = NoResp
       /\ UNCHANGED <<sessions, issued, settings, users, lastSet, nIncr>>

CronFire ==
  /\ StartJob("scheduled")
  /\ resp' = NoResp
  /\ UNCHANGED <<sessions, issued, settings, users, lastSet, nIncr>>

JobReadVip ==
  /\ jobPc = "read_vip"
  /\ vip_quota' = StrToInt(GetSetting(settings, KeyVip, DefaultVip))
  /\ jobPc' = "read_default"
  /\ resp' = NoResp
  /\ UNCHANGED <<sessions, issued, settings, users, triggered_by, default_quota,
                 users_to_reset, idx, snapshot, streak, lastSet, nIncr>>

JobReadDefault ==
  /\ jobPc = "read_default"
  /\ default_quota' = StrToInt(GetSetting(settings, KeyDefault, DefaultDefault))
  /\ jobPc' = "select"
  /\ resp' = NoResp
  /\ UNCHANGED <<sessions, issued, settings, users, triggered_by, vip_quota,
                 users_to_reset, idx, snapshot, streak, lastSet, nIncr>>

Candidates(us) == {u \in DOMAIN us : us[u].group \in {"vip", "default"} /\ ~us[u].deleted}

\* the rows of the candidate query, in any order (the query has no ORDER BY)
Fetchall(us) ==
  {rows \in [1..Cardinality(Candidates(us)) -> [id : Candidates(us), group : {"vip", "default"}]] :
     /\ \A i \in DOMAIN rows : rows[i].group = us[rows[i].id].group
     /\ \A i, j \in DOMAIN rows : i # j => rows[i].id # rows[j].id}

JobSelect ==
  /\ jobPc = "select"
  /\ users_to_reset' \in Fetchall(users)
  /\ idx' = 1
  /\ jobPc' = "loop"
  /\ resp' = NoResp
  /\ UNCHANGED <<sessions, issued, settings, users, triggered_by, vip_quota,
                 default_quota, snapshot, streak, lastSet, nIncr>>

\* variant: the tier is ignored
QuotaToSet_AlwaysVip(user_group, vip, def) == vip

QuotaToSet(user_group, vip, def) == IF user_group = "vip" THEN vip ELSE def

JobResetNext ==
  /\ jobPc = "loop"
  /\ idx <= Len(users_to_reset)
  /\ users' = ResetUserQuota(users, users_to_reset[idx].id,
                             QuotaToSet(users_to_reset[idx].group, vip_quota, default_quota))
  /\ idx' = idx + 1
  /\ resp' = NoResp
  /\ UNCHANGED <<sessions, issued, settings, jobPc, triggered_by, vip_quota,
                 default_quota, users_to_reset, snapshot, streak, lastSet, nIncr>>

JobFinish ==
  /\ jobPc = "loop"
  /\ idx > Len(users_to_reset)
  /\ jobPc' = "done"
  /\ resp' = NoResp
  /\ UNCHANGED <<sessions, issued, settings, users, triggered_by, vip_quota,
                 default_quota, users_to_reset, idx, snapshot, streak, lastSet, nIncr>>

\* variant: the except clause restores the rows the run had written
JobFail_Rollback ==
  /\ \/ jobPc \in {"read_vip", "read_default", "select"}
     \/ jobPc = "loop" /\ idx <= Len(users_to_reset)
  /\ jobPc' = "failed"
  /\ users' = IF snapshot # NoSnap THEN snapshot ELSE users
  /\ resp' = NoResp
  /\ UNCHANGED <<sessions, issued, settings, triggered_by, vip_quota,
                 default_quota, users_to_reset, idx, snapshot, streak, lastSet, nIncr>>

\* a store statement of the job raises; the except clause logs it
JobFail ==
  /\ \/ jobPc \in {"read_vip", "read_default", "select"}
     \/ jobPc = "loop" /\ idx <= Len(users_to_reset)
  /\ jobPc' = "failed"
  /\ resp' = NoResp
  /\ UNCHANGED <<sessions, issued, settings, users, triggered_by, vip_quota,
                 default_quota, users_to_reset, idx, snapshot, streak, lastSet, nIncr>>

JobReturn ==
  /\ jobPc \in {"done", "failed"}
  /\ jobPc' = "idle"
  /\ resp' = IF triggered_by = "manual"
             THEN [op |-> "trigger_reset", req |-> [src |-> "manual"], status |-> 200,
                   body |-> [ok |-> TRUE]]
             ELSE NoResp
  /\ streak' = IF jobPc = "done" /\ snapshot # NoSnap THEN 1 ELSE 0
  /\ snapshot' = NoSnap
  /\ triggered_by' = NoValue
  /\ vip_quota' = NoValue
  /\ default_quota' = NoValue
  /\ users_to_reset' = <<>>
  /\ idx' = 1
  /\ UNCHANGED <<sessions, issued, settings, users, lastSet, nIncr>>

\* ------------------------------------------------- the tenant platform
SoftDelete(id) ==
  /\ Live(users, id)
  /\ users' = [users EXCEPT ![id].deleted = TRUE]
  /\ resp' = NoResp
  /\ Track(users', settings)
  /\ UNCHANGED <<sessions, issued, settings, jobVars, lastSet, nIncr>>

\* ------------------------------------------------------ specifications
UserRows(quotas, useds) ==
  [group : Groups, quota : quotas, used_quota : useds, deleted : BOOLEAN]

InitWith(ss, rows) ==
  /\ sessions = ss
  /\ issued = {ss[i] : i \in 1..Len(ss)}
  /\ settings = [k \in {KeyVip, KeyDefault} |-> NoRow]
  /\ users \in [UserIds -> rows]
  /\ jobPc = "idle"
  /\ triggered_by = NoValue
  /\ vip_quota = NoValue
  /\ default_quota = NoValue
  /\ users_to_reset = <<>>
  /\ idx = 1
  /\ snapshot = NoSnap
  /\ streak = 0
  /\ lastSet = <<>>
  /\ nIncr = 0
  /\ resp = NoResp

Tok1 == <<"a", "1">>
Valid1 == Bearer \o Tok1
LiveRows(groups, quotas, useds) ==
  [group : groups, quota : quotas, used_quota : useds, deleted : {FALSE}]

\* ---- Spec: the reset job, its settings and its triggers
VipSettingQuotas == {0 - 1, 5}
DefaultSettingQuotas == {0 - 1, 2}

Init == InitWith(<<Tok1>>, LiveRows(Groups, {0}, {1}))

Next ==
  \/ \E h \in {Valid1} : get_daily_reset_settings(h)
  \/ \E h \in {Valid1}, v \in VipSettingQuotas, d \in DefaultSettingQuotas :
       set_daily_reset_settings(h, v, d)
  \/ \E h \in {Valid1, <<>>} : trigger_daily_reset_now(h)
  \/ \E id \in UserIds : SoftDelete(id)
  \/ CronFire
  \/ JobReadVip
  \/ JobReadDefault
  \/ JobSelect
  \/ JobResetNext
  \/ JobFinish
  \/ JobFail
  \/ JobReturn

Spec == Init /\ [][Next]_vars

\* ---- SpecAuth: login and the bearer check of every protected route;
\* requests are accepted while the event loop is not held by the job
InitAuth == InitWith(<<>>, LiveRows({"vip"}, {0}, {1}))

NextAuth ==
  \/ jobPc = "idle" /\ \E p \in Passwords, t \in Tokens : admin_login(p, t)
  \/ jobPc = "idle" /\ \E h \in Headers : get_daily_reset_settings(h)
  \/ jobPc = "idle" /\ \E h \in Headers : set_daily_reset_settings(h, 2, 1)
  \/ jobPc = "idle" /\ \E h \in Headers : trigger_daily_reset_now(h)
  \/ jobPc = "idle" /\ \E h \in Headers : get_user_info(h, 1)
  \/ jobPc = "idle" /\ \E h \in Headers : update_user_group_api(h, 1, "enterprise")
  \/ jobPc = "idle" /\ \E h \in Headers : increment_quota_api(h, 1, 4)
  \/ jobPc = "idle" /\ \E h \in Headers : reset_quota_api(h, 1, 3)
  \/ JobReadVip
  \/ JobReadDefault
  \/ JobSelect
  \/ JobResetNext
  \/ JobFinish
  \/ JobReturn

SpecAuth == InitAuth /\ [][NextAuth]_vars

\* ---- SpecGateway: the tenant gateway behind the user routes
ResetQuotas == {0 - 1, 0, 3}
Deltas == {0 - 5, 2}

\* the quota writes go to the first user and to an id that has no row
QuotaIds == {1, NumUsers + 1}

InitGateway == InitWith(<<Tok1>>, UserRows({4}, {1}))

NextGateway ==
  \/ \E h \in {Valid1, <<>>}, id \in ReqIds : get_user_info(h, id)
  \/ \E h \in {Valid1}, id \in ReqIds, g \in Groups : update_user_group_api(h, id, g)
  \/ \E h \in {Valid1}, id \in QuotaIds, d \in Deltas : increment_quota_api(h, id, d)
  \/ \E h \in {Valid1}, id \in QuotaIds, q \in ResetQuotas : reset_quota_api(h, id, q)
  \/ \E id \in UserIds : SoftDelete(id)

SpecGateway == InitGateway /\ [][NextGateway]_vars

\* ---- SpecRace: the reset job racing with the user routes and the platform
InitRace == InitWith(<<Tok1>>, LiveRows(Groups, {0}, {1}))

\* the admin works on the first user while the job runs over all of them
NextRace ==
  \/ \E h \in {Valid1} : get_user_info(h, 1)
  \/ \E h \in {Valid1}, g \in Groups : update_user_group_api(h, 1, g)
  \/ nIncr = 0 /\ \E h \in {Valid1} : increment_quota_api(h, 1, 0 - 5)
  \/ \E h \in {Valid1} : reset_quota_api(h, 1, 3)
  \/ \E id \in UserIds : SoftDelete(id)
  \/ CronFire
  \/ JobReadVip
  \/ JobReadDefault
  \/ JobSelect
  \/ JobResetNext
  \/ JobFinish
  \/ JobReturn

SpecRace == InitRace /\ [][NextRace]_vars
\* ================================================================ claims
HardVipQuota == 1000000
HardDefaultQuota == 50000

ProtectedOps == {"get_settings", "set_settings", "trigger_reset", "get_user",
                 "update_group", "increment_quota", "reset_quota"}

\* the header is absent, has no "Bearer " prefix, or carries a token never issued
BadAuth(h) ==
  \/ Len(h) = 0
  \/ Len(h) < 7
  \/ \E i \in 1..7 : h[i] # Bearer[i]
  \/ SubSeq(h, 8, Len(h)) \notin issued

C1_Step ==
  /\ ("auth" \in DOMAIN resp'.req /\ BadAuth(resp'.req.auth)) =>
       /\ resp'.op \in ProtectedOps
       /\ resp'.status = 403
       /\ resp'.body = "Admin access required"
       /\ UNCHANGED <<settings, sessions, users, jobVars>>
  /\ resp'.status = 403 => UNCHANGED <<settings, sessions, users, jobVars>>

\* C1: a request to a protected route without a header, with a header that
\* does not start with "Bearer ", or with a token that is not in the session
\* store answers 403 "Admin access required" and changes neither the
\* settings, the session table nor any user row.
C1_AuthRejectedBeforeSideEffects == [][C1_Step]_vars

C1_Witness ==
  /\ resp.op = "reset_quota"
  /\ resp.status = 403
  /\ Len(sessions) > 0
  /\ StartsWith(resp.req.auth, Bearer)
  /\ Len(resp.req.auth) > 7

ProbeTokens == Tokens \cup {<<>>, <<"a">>, <<"a", "1", "0">>}

C2_State ==
  \A t \in ProbeTokens : RequireAdminAuth(sessions, Bearer \o t) <=> t \in issued

C2_Step ==
  /\ \A t \in ProbeTokens :
       RequireAdminAuth(sessions, Bearer \o t) => RequireAdminAuth(sessions', Bearer \o t)
  /\ (resp'.op = "login" /\ resp'.req.password # "admin123") =>
       /\ resp'.status = 401
       /\ sessions' = sessions
  /\ (resp'.op = "login" /\ resp'.req.password = "admin123") =>
       /\ resp'.status = 200
       /\ RequireAdminAuth(sessions', Bearer \o resp'.body.token)
       /\ Len(sessions') = Len(sessions) + 1
  /\ resp'.op # "login" => sessions' = sessions

\* C2: a token passes the validity check exactly when an earlier successful
\* login returned it; it is valid from the step login returns and stays
\* valid; a login with a wrong password answers 401 and adds no session.
C2_ValidIffIssued == []C2_State /\ [][C2_Step]_vars

C2_Witness ==
  /\ Len(sessions) = 2
  /\ sessions[1] # sessions[2]
  /\ resp.op = "login"
  /\ resp.status = 401

C3_State ==
  \A id \in UserIds, Q \in 0..3 :
    Live(users, id) =>
      LET after == ResetUserQuota(users, id, Q)
          got == GetUserById(after, id)
      IN /\ got.status = 200
         /\ got.body.quota = Q
         /\ got.body.used_quota = 0
         /\ got.body.group = users[id].group
         /\ \A o \in UserIds \ {id} : after[o] = users[o]

C3_Step ==
  /\ (resp'.op = "reset_quota" /\ resp'.status = 200) =>
       \A u \in UserIds :
         IF u = resp'.req.user_id /\ ~users[u].deleted
         THEN /\ users'[u].quota = resp'.req.quota
              /\ users'[u].used_quota = 0
              /\ users'[u].group = users[u].group
              /\ ~users'[u].deleted
         ELSE users'[u] = users[u]
  /\ (resp'.op = "get_user" /\ resp'.status = 200) =>
       /\ users' = users
       /\ resp'.req.user_id \in UserIds
       /\ ~users[resp'.req.user_id].deleted
       /\ resp'.body.id = resp'.req.user_id
       /\ resp'.body.quota = users[resp'.req.user_id].quota
       /\ resp'.body.used_quota = users[resp'.req.user_id].used_quota
       /\ resp'.body.group = users[resp'.req.user_id].group

\* C3: for a non-deleted user and Q >= 0, resetQuota(id, Q) followed by
\* getUser(id) reports quota = Q and used_quota = 0; the reset keeps the
\* user's group and every other user's row.
C3_ResetThenGet == []C3_State /\ [][C3_Step]_vars

C3_Witness ==
  /\ resp.op = "reset_quota"
  /\ resp.status = 200
  /\ resp.req.quota = 3
  /\ resp.req.user_id \in UserIds
  /\ users[resp.req.user_id] =
       [group |-> "enterprise", quota |-> 3, used_quota |-> 0, deleted |-> FALSE]
  /\ \E o \in UserIds : users[o].used_quota = 1 /\ users[o].quota = 4

C4_State ==
  \A id \in UserIds, d1, d2 \in {0 - 5, 0 - 1, 2, 3} :
    Live(users, id) =>
      LET twice == IncrementUserQuota(IncrementUserQuota(users, id, d1), id, d2)
          once == IncrementUserQuota(users, id, d1 + d2)
      IN /\ twice[id].quota = once[id].quota
         /\ twice[id].quota = users[id].quota + d1 + d2
         /\ twice[id].used_quota = users[id].used_quota
         /\ once[id].used_quota = users[id].used_quota

C4_Step ==
  (resp'.op = "increment_quota" /\ resp'.status = 200) =>
    \A u \in UserIds :
      IF u = resp'.req.user_id /\ ~users[u].deleted
      THEN users'[u] = [users[u] EXCEPT !.quota = users[u].quota + resp'.req.delta]
      ELSE users'[u] = users[u]

\* C4: incrementQuota(id, d1) then incrementQuota(id, d2) gives the quota of
\* one incrementQuota(id, d1 + d2); nothing is floored or capped, so the
\* quota may turn negative; used_quota is not changed.
C4_IncrementAdditive == []C4_State /\ [][C4_Step]_vars

C4_Witness ==
  /\ nIncr = 2
  /\ resp.op = "increment_quota"
  /\ resp.req.delta = 0 - 5
  /\ resp.req.user_id \in UserIds
  /\ users[resp.req.user_id].quota = 0 - 6
  /\ users[resp.req.user_id].used_quota = 1

C5_State ==
  \A k \in {KeyVip, KeyDefault} : settings[k] # NoRow => StrToInt(settings[k]) >= 0

C5_Step ==
  (/\ resp'.op = "set_settings"
   /\ resp'.status # 403
   /\ (resp'.req.vip_quota < 0 \/ resp'.req.default_quota < 0)) =>
    /\ resp'.status = 400
    /\ settings' = settings

\* C5: an authenticated request that sets the daily-reset quotas with a
\* negative vip_quota or default_quota answers 400 and leaves both stored
\* settings as they were; the stored quotas are never negative.
C5_NegativeSettingsRejected == []C5_State /\ [][C5_Step]_vars

C5_Witness ==
  /\ resp.op = "set_settings"
  /\ resp.status = 400
  /\ resp.req.vip_quota >= 0
  /\ resp.req.default_quota < 0
  /\ settings[KeyVip] # NoRow
  /\ settings[KeyDefault] # NoRow

ExpectedVip == IF lastSet = <<>> THEN HardVipQuota ELSE lastSet.vip_quota
ExpectedDefault == IF lastSet = <<>> THEN HardDefaultQuota ELSE lastSet.default_quota

\* C6: after a run of the reset job that ends without error and without
\* concurrent writes, every non-deleted vip user has the VIP reset setting
\* (1000000 if unset) and used_quota 0, every non-deleted default user has
\* the default-tier setting (50000 if unset) and used_quota 0, and every
\* other row is as it was when the run began.
C6_CleanRunResetsTiers ==
  (jobPc = "done" /\ snapshot # NoSnap) =>
    /\ vip_quota = ExpectedVip
    /\ default_quota = ExpectedDefault
    /\ \A u \in UserIds :
         /\ (~users[u].deleted /\ users[u].group = "vip") =>
              (users[u].quota = ExpectedVip /\ users[u].used_quota = 0)
         /\ (~users[u].deleted /\ users[u].group = "default") =>
              (users[u].quota = ExpectedDefault /\ users[u].used_quota = 0)
         /\ (users[u].deleted \/ users[u].group \notin {"vip", "default"}) =>
              users[u] = snapshot[u]
         /\ users[u].group = snapshot[u].group

C6_Witness ==
  /\ jobPc = "done"
  /\ snapshot # NoSnap
  /\ lastSet # <<>>
  /\ \E a, b \in UserIds :
       /\ ~users[a].deleted /\ users[a].group = "vip" /\ users[a].quota = 5
       /\ users[b].group = "enterprise" /\ users[b].used_quota = 1

\* C8: a second run of the reset job right after a first one, with the
\* settings unchanged and no other write, ends with every eligible user's
\* quota and used_quota as they were after the first run.
C8_SecondRunChangesNothing ==
  (jobPc = "done" /\ streak = 1 /\ snapshot # NoSnap) =>
    \A u \in UserIds :
      (~users[u].deleted /\ users[u].group \in {"vip", "default"}) =>
        /\ users[u].quota = snapshot[u].quota
        /\ users[u].used_quota = snapshot[u].used_quota

C8_Witness ==
  /\ jobPc = "done"
  /\ streak = 1
  /\ snapshot # NoSnap
  /\ triggered_by = "manual"
  /\ \E a, b \in UserIds :
       /\ ~users[a].deleted /\ users[a].group = "vip"
       /\ ~users[b].deleted /\ users[b].group = "default"

C7_Step ==
  /\ \A u \in UserIds : users[u].deleted => users'[u] = users[u]
  /\ (resp'.op = "get_user" /\ resp'.status # 403
        /\ resp'.req.user_id \in UserIds /\ users[resp'.req.user_id].deleted) =>
       /\ resp'.status = 404
       /\ resp'.body = "User not found or has been deleted"
  /\ (jobPc = "select" /\ jobPc' = "loop") =>
       \A i \in 1..Len(users_to_reset') : ~users[users_to_reset'[i].id].deleted

\* C7: a soft-deleted user is never returned by getUser (404), its row is
\* never changed by updateGroup, incrementQuota, resetQuota or the reset
\* job, and the job's candidate query leaves it out; this also holds for a
\* user that is soft-deleted after the job selected it and before the job
\* reaches it.
C7_DeletedNeverTouched == [][C7_Step]_vars

C7_Witness ==
  /\ jobPc = "loop"
  /\ idx = 2
  /\ users[users_to_reset[1].id].deleted
  /\ users[users_to_reset[1].id].quota = 0
  /\ users[users_to_reset[1].id].used_quota = 1
  /\ users[users_to_reset[1].id].group = "vip"
  /\ resp = NoResp

C9_Step ==
  \A u \in UserIds :
    (idx' = idx + 1 /\ users'[u] # users[u]) =>
      /\ users[u].group \in {"vip", "default"}
      /\ users[u].group = "vip" => users'[u].quota = vip_quota
      /\ users[u].group = "default" => users'[u].quota = default_quota

\* C9: under every interleaving of a run of the reset job with admin
\* requests, the job writes quota and used_quota only of a user whose group
\* at the moment of the write is vip or default, and gives it the quota of
\* the group it has at that moment.
C9_JobWritesOnlyCurrentTier == [][C9_Step]_vars

C10_State ==
  (jobPc = "failed" /\ snapshot # NoSnap) =>
    /\ \A i \in 1..Len(users_to_reset) :
         IF i < idx
         THEN /\ users[users_to_reset[i].id].quota =
                   (IF users_to_reset[i].group = "vip" THEN vip_quota ELSE default_quota)
              /\ users[users_to_reset[i].id].used_quota = 0
         ELSE users[users_to_reset[i].id] = snapshot[users_to_reset[i].id]
    /\ \A u \in UserIds :
         (\A i \in 1..Len(users_to_reset) : users_to_reset[i].id # u) =>
           users[u] = snapshot[u]

C10_Step ==
  /\ (jobPc # "failed" /\ jobPc' = "failed") =>
       /\ jobPc \in {"read_vip", "read_default", "select", "loop"}
       /\ UNCHANGED <<users, settings, sessions, users_to_reset, idx>>
  /\ (jobPc = "failed" /\ jobPc' # "failed") =>
       /\ jobPc' = "idle"
       /\ users_to_reset' = <<>>
       /\ UNCHANGED <<users, settings, sessions>>
       /\ triggered_by = "manual" =>
            (resp'.op = "trigger_reset" /\ resp'.status = 200 /\ resp'.body = [ok |-> TRUE])
  /\ jobPc = "failed" =>
       \A u \in UserIds :
         users'[u] # users[u] => (users[u].deleted # users'[u].deleted)

\* C10: when a step of a run of the reset job raises, the run stops there:
\* the candidates already reset keep their new quota and used_quota 0, the
\* failing and the later candidates are left as they were, nothing is
\* retried, the job goes back to idle and a manual trigger still answers
\* ok.
C10_FailureAbortsWithoutRollback == []C10_State /\ [][C10_Step]_vars

C10_Witness ==
  /\ jobPc = "failed"
  /\ snapshot # NoSnap
  /\ triggered_by = "manual"
  /\ Len(users_to_reset) = 2
  /\ idx = 2
  /\ users[users_to_reset[1].id].used_quota = 0
  /\ users[users_to_reset[2].id].used_quota = 1
====
